---- MODULE Spec2Model ----
(***************************************************************************)
(* A model of the OpenPNM property-composition core:                       *)
(*   - GenericPhase (src/OpenPNM/Phases/__GenericPhase__.py): the phase    *)
(*     property store guarded by its physics objects, mixture membership,  *)
(*     regeneration of a composite phase and the physics health check;     *)
(*   - series_resistors                                                    *)
(*     (src/OpenPNM/Physics/models/electrical_conductance.py);             *)
(*   - fuller_diffusivity / wilke_fuller_diffusivity                       *)
(*     (src/openpnm/models/phases/mixtures.py).                            *)
(* The Core base class (add_model, reorder_models, regenerate,             *)
(* __setitem__, _interleave_data) is not part of the sources; it is        *)
(* modelled from sections 4.1-4.3 of the specification.                    *)
(***************************************************************************)
EXTENDS Integers, Sequences, FiniteSets, TLC

VARIABLES
    built,        \* TRUE once GenericPhase.__init__ of the mixture has run
    phases,       \* mix._phases: the list of attached component phases
    models,       \* obj -> obj._models, an ordered registry of entries
    props,        \* obj -> the object's own property store (a dict)
    physics,      \* mix._physics: the list of attached physics objects
    physProps,    \* physics object -> its own property store
    physPores,    \* physics object -> the pores it covers  (mix['pore.'+name])
    physThroats,  \* physics object -> the throats it covers (mix['throat.'+name])
    net,          \* the Network's geometric property arrays
    sigma,        \* phase['pore.electrical_conductivity']
    molar,        \* species -> its molecular weight and molar diffusion volume
    D_in,         \* species A -> (species B -> A['pore.D_in_'+B], squared)
    op,           \* the call that was made last, with its arguments
    raised,       \* the error that call raised to its caller, or "none"
    logged,       \* the message that call sent to _logger.error, or "none"
    ret,          \* the value that call returned
    trace         \* the model evaluations of the last regenerate, in order

vars == <<built, phases, models, props, physics, physProps, physPores,
          physThroats, net, sigma, molar, D_in, op, raised, logged, ret, trace>>

mixVars == <<built, phases, models, props, trace>>
physVars == <<physics, physProps, physPores, physThroats>>
condVars == <<net, sigma>>
diffVars == <<molar, D_in>>

(***************************************************************************)
(* Bounds of the model.                                                    *)
(***************************************************************************)
Np == 5              \* pores of the network the phases live on
Nt == 1              \* throats of that network
MaxComponents == 2   \* length of the constructor's component list

\* Elements are numbered from 0, as the indices of a numpy array are.
Pores == 0..(Np - 1)
Throats == 0..(Nt - 1)

(***************************************************************************)
(* Objects and keys.                                                       *)
(***************************************************************************)
Mix == "mix"
Components == {"N2", "O2"}
Objs == Components \cup {Mix}

T_KEY == "pore.temperature"
P_KEY == "pore.pressure"
DENSITY == "pore.density"
DIFFUSIVITY == "pore.diffusivity"
ThroatKeys == {"throat.all"}

\* The element domain a key belongs to: its prefix before the first dot.
ElementsOf(key) == IF key \in ThroatKeys THEN Throats ELSE Pores

None == [name |-> "none"]

\* Sequences over S of length at most n.
SeqsUpTo(S, n) == UNION {[1..k -> S] : k \in 0..n}

Range(s) == {s[i] : i \in DOMAIN s}

RECURSIVE SelectSeqKey(_, _)
\* The entries of a registry whose key is not in the set drop.
SelectSeqKey(s, drop) ==
    IF s = <<>> THEN <<>>
    ELSE IF Head(s).propname \in drop THEN SelectSeqKey(Tail(s), drop)
         ELSE <<Head(s)>> \o SelectSeqKey(Tail(s), drop)

KeysOf(reg) == {reg[i].propname : i \in DOMAIN reg}

IndexOf(reg, key) == CHOOSE i \in DOMAIN reg : reg[i].propname = key

\* A function with one more (or one overwritten) key.
Put(f, k, v) == [x \in (DOMAIN f) \cup {k} |-> IF x = k THEN v ELSE f[x]]

(***************************************************************************)
(* Core: the property store (specification 4.1).                           *)
(***************************************************************************)
\* A value handed to a store: a scalar, which numpy broadcasts over the
\* key's element domain, or an array, a function on 1..length.
Scalar(v) == [kind |-> "scalar", v |-> <<v>>]
Array(a) == [kind |-> "array", v |-> a]

\* Core.__setitem__: the array is stored when its length is the element
\* count of the key's domain, and DimensionMismatch is raised otherwise.
Core_setitem(store, key, value) ==
    IF value.kind = "scalar"
    THEN [store |-> Put(store, key, [e \in ElementsOf(key) |-> value.v[1]]),
          raised |-> "none"]
    ELSE IF DOMAIN value.v = ElementsOf(key)
         THEN [store |-> Put(store, key, value.v), raised |-> "none"]
         ELSE [store |-> store, raised |-> "DimensionMismatch"]

(***************************************************************************)
(* Core: the model registry (specification 4.3).                           *)
(***************************************************************************)
Entry(propname, model, mixture) ==
    [propname |-> propname, model |-> model, mixture |-> mixture]

\* add_model: appends an entry at the next ordinal position; an entry
\* with the same target key is replaced in place.
add_model(reg, propname, model, mixture) ==
    IF propname \in KeysOf(reg)
    THEN [reg EXCEPT ![IndexOf(reg, propname)] = Entry(propname, model, mixture)]
    ELSE Append(reg, Entry(propname, model, mixture))

\* reorder_models: the named entries move to the front in the order given,
\* the other entries follow in their previous relative order.
reorder_models(reg, new_order) ==
    [i \in 1..Len(new_order) |-> reg[IndexOf(reg, new_order[i])]]
        \o SelectSeqKey(reg, Range(new_order))

RECURSIVE dict_update(_, _, _)
\* dict.update(other): other's entries are written one after the other;
\* i is the position reached in other.
dict_update(reg, other, i) ==
    IF i > Len(other) THEN reg
    ELSE dict_update(add_model(reg, other[i].propname, other[i].model,
                               other[i].mixture), other, i + 1)

\* The value a model entry computes for obj, from the stores as they are
\* when it runs.
Evaluate(entry, obj, st) ==
    CASE entry.model = "mixture_props.temperature" -> st[entry.mixture][T_KEY]
      [] entry.model = "mixture_props.pressure" -> st[entry.mixture][P_KEY]
      [] OTHER -> st[obj][T_KEY]   \* a property correlation in the object's T

Event(obj, ev, propname, targets, mode) ==
    [obj |-> obj, ev |-> ev, propname |-> propname, targets |-> targets,
     mode |-> mode]

RECURSIVE RunModels(_, _, _, _, _, _, _)
\* The loop of Core.regenerate over the registry reg of obj, from ordinal i:
\* st are the stores and ev the evaluations so far.
RunModels(obj, reg, i, targets, mode, st, ev) ==
    IF i > Len(reg) THEN [props |-> st, trace |-> ev]
    ELSE LET e == reg[i]
             selected == targets.unset \/ e.propname \in targets.keys
             current == e.propname \in DOMAIN st[obj]
                        /\ DOMAIN st[obj][e.propname] = ElementsOf(e.propname)
         IN  IF ~selected
             THEN RunModels(obj, reg, i + 1, targets, mode, st, ev)
             ELSE IF mode = "normal" /\ current
             THEN RunModels(obj, reg, i + 1, targets, mode, st,
                            Append(ev, Event(obj, "skip", e.propname, targets, mode)))
             ELSE RunModels(obj, reg, i + 1, targets, mode,
                            [st EXCEPT ![obj] = Core_setitem(@, e.propname,
                                 Array(Evaluate(e, obj, st))).store],
                            Append(ev, Event(obj, "run", e.propname, targets, mode)))

\* Core.regenerate(targets, mode) of obj: the entries run in ordinal order.
Core_regenerate(obj, targets, mode, st, ev) ==
    LET r == RunModels(obj, models[obj], 1, targets, mode, st,
                       Append(ev, Event(obj, "begin", "", targets, mode)))
    IN  [props |-> r.props,
         trace |-> Append(r.trace, Event(obj, "end", "", targets, mode))]

(***************************************************************************)
(* GenericPhase.                                                           *)
(***************************************************************************)
StdT == 298       \* self['pore.temperature'] = 298.0
StdP == 101325    \* self['pore.pressure'] = 101325.0

\* The store of a phase when its constructor has set the labels 'all' and
\* the standard conditions.
PhaseStore ==
    LET s1 == Core_setitem(<<>>, "pore.all", Array([p \in Pores |-> 1])).store
        s2 == Core_setitem(s1, "throat.all", Array([t \in Throats |-> 1])).store
        s3 == Core_setitem(s2, T_KEY, Scalar(StdT)).store
    IN  Core_setitem(s3, P_KEY, Scalar(StdP)).store

RECURSIVE AttachAll(_, _, _)
\* The loop of __init__ over its component list, from position i: each
\* component gets the two mixture models, moved to ordinals 0 and 1.
AttachAll(components, i, ms) ==
    IF i > Len(components) THEN ms
    ELSE LET comp == components[i]
             m1 == add_model(ms[comp], T_KEY, "mixture_props.temperature", Mix)
             m2 == add_model(m1, P_KEY, "mixture_props.pressure", Mix)
         IN  AttachAll(components, i + 1,
                       [ms EXCEPT ![comp] = reorder_models(m2, <<T_KEY, P_KEY>>)])

\* GenericPhase.__init__(network, components) of the mixture.
GenericPhase_init(components) ==
    /\ ~built
    /\ built' = TRUE
    /\ props' = [props EXCEPT ![Mix] = PhaseStore]
    /\ phases' = components
    /\ models' = AttachAll(components, 1, models)
    /\ op' = [name |-> "init", components |-> components]
    /\ raised' = "none"
    /\ logged' = "none"
    /\ ret' = None
    /\ trace' = <<>>
    /\ UNCHANGED <<physVars, condVars, diffVars>>

\* list.remove(x): the first occurrence of x leaves the list.
ListRemove(s, x) ==
    LET i == CHOOSE j \in DOMAIN s : s[j] = x /\ \A k \in 1..(j - 1) : s[k] # x
    IN  SubSeq(s, 1, i - 1) \o SubSeq(s, i + 1, Len(s))

\* The registry of a phase after the 'add' branch of set_component: temp
\* names the registry itself, not a copy of it, so clear() empties both and
\* update(temp) writes the registry onto itself.
AddedModels(reg) ==
    LET cleared == <<>>
        m1 == add_model(cleared, T_KEY, "mixture_props.temperature", Mix)
        m2 == add_model(m1, P_KEY, "mixture_props.pressure", Mix)
        temp == m2
    IN  dict_update(m2, temp, 1)

\* GenericPhase.set_component(phase, mode) of the mixture.
set_component(phase, mode) ==
    /\ built
    /\ op' = [name |-> "set_component", phase |-> phase, mode |-> mode]
    /\ raised' = "none"
    /\ ret' = None
    /\ trace' = <<>>
    /\ IF mode = "add"
       THEN IF phase \in Range(phases)
            THEN /\ logged' = "Phase already present"
                 /\ UNCHANGED <<phases, models>>
            ELSE /\ phases' = Append(phases, phase)
                 /\ models' = [models EXCEPT ![phase] = AddedModels(@)]
                 /\ logged' = "none"
       ELSE IF phase \in Range(phases)
            THEN /\ phases' = ListRemove(phases, phase)
                 /\ logged' = "none"
                 /\ UNCHANGED models
            ELSE /\ logged' = "Phase not found"
                 /\ UNCHANGED <<phases, models>>
    /\ UNCHANGED <<built, props, physVars, condVars, diffVars>>

RECURSIVE RegenComponents(_, _, _, _, _, _)
\* The loop of regenerate over self._phases, from position i: each item
\* is regenerated with the caller's keyword arguments.
RegenComponents(items, i, targets, mode, st, ev) ==
    IF i > Len(items) THEN [props |-> st, trace |-> ev]
    ELSE LET r == Core_regenerate(items[i], targets, mode, st, ev)
         IN  RegenComponents(items, i + 1, targets, mode, r.props, r.trace)

\* A regenerate that runs the composite's own entries before its components'.
regenerate_own_first(targets, mode) ==
    /\ built
    /\ LET r1 == Core_regenerate(Mix, targets, mode, props, <<>>)
           r2 == RegenComponents(phases, 1, targets, mode, r1.props, r1.trace)
       IN  /\ props' = r2.props
           /\ trace' = r2.trace
    /\ op' = [name |-> "regenerate", targets |-> targets, mode |-> mode]
    /\ raised' = "none"
    /\ logged' = "none"
    /\ ret' = None
    /\ UNCHANGED <<built, phases, models, physVars, condVars, diffVars>>

\* GenericPhase.regenerate(**kwargs) of the mixture.
regenerate(targets, mode) ==
    /\ built
    /\ LET r1 == RegenComponents(phases, 1, targets, mode, props, <<>>)
           r2 == Core_regenerate(Mix, targets, mode, r1.props, r1.trace)
       IN  /\ props' = r2.props
           /\ trace' = r2.trace
    /\ op' = [name |-> "regenerate", targets |-> targets, mode |-> mode]
    /\ raised' = "none"
    /\ logged' = "none"
    /\ ret' = None
    /\ UNCHANGED <<built, phases, models, physVars, condVars, diffVars>>

\* A physics object of the list defines prop: the loop of __setitem__.
DefinedByPhysics(prop) ==
    \E i \in DOMAIN physics : prop \in DOMAIN physProps[physics[i]]

\* GenericPhase.__setitem__(prop, value) of the mixture.
setitem(prop, value) ==
    /\ built
    /\ op' = [name |-> "setitem", key |-> prop, value |-> value]
    /\ ret' = None
    /\ trace' = <<>>
    /\ IF DefinedByPhysics(prop)
       THEN /\ logged' = "already defined in at least one associated Physics object"
            /\ raised' = "none"
            /\ UNCHANGED props
       ELSE LET r == Core_setitem(props[Mix], prop, value)
            IN  /\ props' = [props EXCEPT ![Mix] = r.store]
                /\ raised' = r.raised
                /\ logged' = "none"
    /\ UNCHANGED <<built, phases, models, physVars, condVars, diffVars>>

\* obj.add_model(propname, model) called by the user for a property
\* correlation of the object.
AddModel(obj, propname) ==
    /\ obj = Mix => built
    /\ models' = [models EXCEPT ![obj] = add_model(@, propname, "correlation", "none")]
    /\ op' = [name |-> "add_model", obj |-> obj, key |-> propname]
    /\ raised' = "none"
    /\ logged' = "none"
    /\ ret' = None
    /\ trace' = <<>>
    /\ UNCHANGED <<built, phases, props, physVars, condVars, diffVars>>

(***************************************************************************)
(* The mixture specification: construction of a composite phase from pure  *)
(* components, membership changes, changes of the mixture's temperature    *)
(* and regeneration.  The pressure stays at its standard value, and the    *)
(* phases have one other property, the density.                            *)
(***************************************************************************)
TVals == {StdT, 350}
OtherKeys == {DENSITY}
NoTargets == [unset |-> TRUE, keys |-> {}]
TargetChoices == {NoTargets, [unset |-> FALSE, keys |-> {DENSITY}]}
Modes == {"normal", "force"}

NoNet == <<>>

InitMix ==
    /\ built = FALSE
    /\ phases = <<>>
    /\ models = [o \in Objs |-> <<>>]
    /\ props = [o \in Objs |-> IF o = Mix THEN <<>> ELSE PhaseStore]
    /\ physics = <<>>
    /\ physProps = <<>>
    /\ physPores = <<>>
    /\ physThroats = <<>>
    /\ net = NoNet
    /\ sigma = <<>>
    /\ molar = <<>>
    /\ D_in = <<>>
    /\ op = None
    /\ raised = "none"
    /\ logged = "none"
    /\ ret = None
    /\ trace = <<>>

NextMix ==
    \/ \E components \in SeqsUpTo(Components, MaxComponents) :
          GenericPhase_init(components)
    \/ \E phase \in Components, mode \in {"add", "remove"} :
          set_component(phase, mode)
    \/ \E targets \in TargetChoices, mode \in Modes : regenerate(targets, mode)
    \/ \E v \in TVals : setitem(T_KEY, Scalar(v))
    \/ \E obj \in Objs, k \in OtherKeys : AddModel(obj, k)

SpecMix == InitMix /\ [][NextMix]_vars

(***************************************************************************)
(* GenericPhase and its physics objects.                                   *)
(***************************************************************************)
PhysNames == {"phys_A", "phys_B"}
DefaultFill == 0   \* what _interleave_data leaves where no physics object writes

RECURSIVE Interleave(_, _, _, _)
\* The loop of _interleave_data over its sources, from position i: a source
\* that owns the key copies its values into its own index positions of arr.
Interleave(key, sources, i, arr) ==
    IF i > Len(sources) THEN arr
    ELSE LET ph == sources[i]
         IN  IF key \in DOMAIN physProps[ph]
             THEN Interleave(key, sources, i + 1,
                      [e \in DOMAIN arr |->
                          IF e \in DOMAIN physProps[ph][key]
                          THEN physProps[ph][key][e] ELSE arr[e]])
             ELSE Interleave(key, sources, i + 1, arr)

\* Core._interleave_data(key, sources): a newly allocated full-length
\* array, NotFound when no source owns the key.
interleave_data(key, sources) ==
    IF \E i \in DOMAIN sources : key \in DOMAIN physProps[sources[i]]
    THEN [value |-> Interleave(key, sources, 1,
                               [e \in ElementsOf(key) |-> DefaultFill]),
          raised |-> "none"]
    ELSE [value |-> None, raised |-> "NotFound"]

\* A __getitem__ that keeps the composed array in the phase's own store.
getitem_cached(key) ==
    /\ built
    /\ op' = [name |-> "getitem", key |-> key]
    /\ logged' = "none"
    /\ trace' = <<>>
    /\ IF key \notin DOMAIN props[Mix]
       THEN LET r == interleave_data(key, physics)
            IN  /\ ret' = r.value
                /\ raised' = r.raised
                /\ props' = IF r.raised = "none"
                            THEN [props EXCEPT ![Mix] = Put(@, key, r.value)]
                            ELSE props
       ELSE /\ ret' = props[Mix][key]
            /\ raised' = "none"
            /\ UNCHANGED props
    /\ UNCHANGED <<built, phases, models, physVars, condVars, diffVars>>

\* GenericPhase.__getitem__(key) of the mixture.
getitem(key) ==
    /\ built
    /\ op' = [name |-> "getitem", key |-> key]
    /\ logged' = "none"
    /\ trace' = <<>>
    /\ IF key \notin DOMAIN props[Mix]
       THEN LET r == interleave_data(key, physics)
            IN  /\ ret' = r.value
                /\ raised' = r.raised
       ELSE /\ ret' = props[Mix][key]
            /\ raised' = "none"
    /\ UNCHANGED <<built, phases, models, props, physVars, condVars, diffVars>>

\* The attachment of a physics object to the phase: it joins _physics and
\* the phase labels 'pore.<name>' and 'throat.<name>' mark what it covers.
AttachPhysics(ph, pores, throats) ==
    /\ built
    /\ ph \notin Range(physics)
    /\ physics' = Append(physics, ph)
    /\ physPores' = Put(physPores, ph, pores)
    /\ physThroats' = Put(physThroats, ph, throats)
    /\ physProps' = Put(physProps, ph, <<>>)
    /\ op' = [name |-> "attach_physics", phys |-> ph]
    /\ raised' = "none"
    /\ logged' = "none"
    /\ ret' = None
    /\ trace' = <<>>
    /\ UNCHANGED <<mixVars, condVars, diffVars>>

\* phys[key] = value on an attached physics object: the value is stored on
\* the elements the object covers.
Physics_setitem(ph, key, v) ==
    /\ ph \in Range(physics)
    /\ physProps' = [physProps EXCEPT ![ph] =
                        Put(@, key, [e \in (IF key \in ThroatKeys THEN physThroats[ph]
                                            ELSE physPores[ph]) |-> v])]
    /\ op' = [name |-> "physics_setitem", phys |-> ph, key |-> key]
    /\ raised' = "none"
    /\ logged' = "none"
    /\ ret' = None
    /\ trace' = <<>>
    /\ UNCHANGED <<mixVars, physics, physPores, physThroats, condVars, diffVars>>

RECURSIVE CountLoop(_, _, _, _)
\* The loop of check_physics_health over the physics names, from position
\* i: temp counts, per element, the objects seen so far that cover it.
CountLoop(phys, i, Ptemp, Ttemp) ==
    IF i > Len(phys) THEN [Ptemp |-> Ptemp, Ttemp |-> Ttemp]
    ELSE LET Pind == physPores[phys[i]]
             Tind == physThroats[phys[i]]
         IN  CountLoop(phys, i + 1,
                 [e \in DOMAIN Ptemp |-> IF e \in Pind THEN Ptemp[e] + 1 ELSE Ptemp[e]],
                 [e \in DOMAIN Ttemp |-> IF e \in Tind THEN Ttemp[e] + 1 ELSE Ttemp[e]])

RECURSIVE ToList(_)
\* sp.where(mask)[0].tolist(): the indices of the set in increasing order.
ToList(S) ==
    IF S = {} THEN <<>>
    ELSE LET m == CHOOSE x \in S : \A y \in S : x <= y
         IN  <<m>> \o ToList(S \ {m})

\* The report of a health check that takes one covering object for an overlap.
HealthAtLeastOne ==
    LET c == CountLoop(physics, 1, [e \in Pores |-> 0], [e \in Throats |-> 0])
    IN  [overlapping_pores |-> ToList({e \in Pores : c.Ptemp[e] >= 1}),
         undefined_pores |-> ToList({e \in Pores : c.Ptemp[e] = 0}),
         overlapping_throats |-> ToList({e \in Throats : c.Ttemp[e] >= 1}),
         undefined_throats |-> ToList({e \in Throats : c.Ttemp[e] = 0})]

\* The dictionary check_physics_health returns.
Health ==
    LET c == CountLoop(physics, 1, [e \in Pores |-> 0], [e \in Throats |-> 0])
    IN  [overlapping_pores |-> ToList({e \in Pores : c.Ptemp[e] > 1}),
         undefined_pores |-> ToList({e \in Pores : c.Ptemp[e] = 0}),
         overlapping_throats |-> ToList({e \in Throats : c.Ttemp[e] > 1}),
         undefined_throats |-> ToList({e \in Throats : c.Ttemp[e] = 0})]

\* GenericPhase.check_physics_health() of the mixture.
check_physics_health ==
    /\ built
    /\ ret' = Health
    /\ op' = [name |-> "check_physics_health"]
    /\ raised' = "none"
    /\ logged' = "none"
    /\ trace' = <<>>
    /\ UNCHANGED <<mixVars, physVars, condVars, diffVars>>

(***************************************************************************)
(* The physics specification: a phase without components, the physics     *)
(* objects attached to it, and reads and writes of one pore property.      *)
(***************************************************************************)
Vals == {1, 2}
Regions == {{0, 1, 2}, {2, 3, 4}, {3, 4}}
BadArray == [e \in 0..(Np + Nt) |-> 1]
WrittenValues == {Scalar(v) : v \in Vals} \cup {Array(BadArray)}

InitPhysics ==
    /\ built = TRUE
    /\ phases = <<>>
    /\ models = [o \in Objs |-> <<>>]
    /\ props = [o \in Objs |-> PhaseStore]
    /\ physics = <<>>
    /\ physProps = <<>>
    /\ physPores = <<>>
    /\ physThroats = <<>>
    /\ net = NoNet
    /\ sigma = <<>>
    /\ molar = <<>>
    /\ D_in = <<>>
    /\ op = None
    /\ raised = "none"
    /\ logged = "none"
    /\ ret = None
    /\ trace = <<>>

NextPhysics ==
    \/ \E ph \in PhysNames, pores \in Regions : AttachPhysics(ph, pores, Throats)
    \/ \E ph \in PhysNames, v \in Vals : Physics_setitem(ph, DIFFUSIVITY, v)
    \/ \E value \in WrittenValues : setitem(DIFFUSIVITY, value)
    \/ \E key \in {DIFFUSIVITY, T_KEY} : getitem(key)

SpecPhysics == InitPhysics /\ [][NextPhysics]_vars

(***************************************************************************)
(* The health specification: physics objects attached with any coverage,   *)
(* and the health check.                                                   *)
(***************************************************************************)
NextHealth ==
    \/ \E ph \in PhysNames, pores \in SUBSET Pores, throats \in SUBSET Throats :
          AttachPhysics(ph, pores, throats)
    \/ check_physics_health

SpecHealth == InitPhysics /\ [][NextHealth]_vars

(***************************************************************************)
(* Exact arithmetic for the conductance and diffusivity formulas: a number *)
(* is a reduced fraction n/d with d > 0, and 1/0 is +infinity, as the      *)
(* floating-point division of a positive number by zero is.                *)
(***************************************************************************)
Abs(x) == IF x < 0 THEN -x ELSE x

RECURSIVE Gcd(_, _)
Gcd(a, b) == IF b = 0 THEN a ELSE Gcd(b, a % b)

Frac(n, d) ==
    IF d = 0 THEN [n |-> IF n < 0 THEN -1 ELSE 1, d |-> 0]
    ELSE LET g == Gcd(Abs(n), Abs(d))
             sgn == IF d < 0 THEN -1 ELSE 1
         IN  [n |-> sgn * (n \div g), d |-> sgn * (d \div g)]

Num(k) == Frac(k, 1)
Inf == Frac(1, 0)
IsFinite(x) == x.d # 0
IsPositive(x) == x.n > 0

RAdd(x, y) ==
    IF ~IsFinite(x) THEN x
    ELSE IF ~IsFinite(y) THEN y
    ELSE Frac(x.n * y.d + y.n * x.d, x.d * y.d)

RMul(x, y) == Frac(x.n * y.n, x.d * y.d)
RInv(x) == IF x.n < 0 THEN Frac(-x.d, -x.n) ELSE Frac(x.d, x.n)
RDiv(x, y) == RMul(x, RInv(y))

(***************************************************************************)
(* series_resistors on a chain network: throat t joins pores t and t+1.    *)
(* Lengths are counted in units of 1e-12, the floor of the clamp.          *)
(***************************************************************************)
ChainNp == 2    \* pores of the chain
LengthFloor == 1    \* pdia1[pdia1<=0] = 1e-12, in units of 1e-12

ChainPores == 0..(ChainNp - 1)
ChainThroats == 0..(ChainNp - 2)
Conns == [t \in ChainThroats |-> <<t, t + 1>>]
CondPhys == "phys_A"

\* array[array<=0] = 1e-12
Clamp(x) == IF x <= 0 THEN LengthFloor ELSE x

\* phase.interpolate_data(sigmap): the mean of the two pore values.
interpolate_data(sigmap, t) ==
    RDiv(Num(sigmap[Conns[t][1]] + sigmap[Conns[t][2]]), Num(2))

\* sigmat*parea[Ps[:,k]]/(0.5*pdia_k), with pdia_k clamped.
HalfConductance(g, t, k) ==
    LET p == Conns[t][k]
    IN  RDiv(RMul(interpolate_data(sigma, t), Num(g["pore.area"][p])),
             RMul(Frac(1, 2), Num(Clamp(g["pore.diameter"][p]))))

\* gp[~(gp>0)] = inf
ZeroToInf(gp) == IF ~IsPositive(gp) THEN Inf ELSE gp

\* sigmat*tarea/tlen, with tlen clamped.
ThroatConductance(g, t) ==
    RDiv(RMul(interpolate_data(sigma, t), Num(g["throat.area"][t])),
         Num(Clamp(g["throat.length"][t])))

\* A series combination that keeps a non-positive half conductance as it is.
SeriesKeepZero(g, t) ==
    RInv(RAdd(RAdd(RInv(ThroatConductance(g, t)),
                   RInv(HalfConductance(g, t, 1))),
              RInv(HalfConductance(g, t, 2))))

\* value = (1/gt + 1/gp1 + 1/gp2)**(-1), for throat t.
Series(g, t) ==
    RInv(RAdd(RAdd(RInv(ThroatConductance(g, t)),
                   RInv(ZeroToInf(HalfConductance(g, t, 1)))),
              RInv(ZeroToInf(HalfConductance(g, t, 2)))))

\* series_resistors(physics, phase, network): tlen names the network's own
\* array, which the clamp writes; pdia1 and pdia2 are copies.
series_resistors(phys) ==
    /\ phys \in Range(physics)
    /\ LET owned == ToList(physThroats[phys])
       IN  ret' = [i \in 1..Len(owned) |-> Series(net, owned[i])]
    /\ net' = [net EXCEPT !["throat.length"] = [t \in DOMAIN @ |-> Clamp(@[t])]]
    /\ op' = [name |-> "series_resistors", phys |-> phys]
    /\ raised' = "none"
    /\ logged' = "none"
    /\ trace' = <<>>
    /\ UNCHANGED <<mixVars, physVars, sigma, diffVars>>

(***************************************************************************)
(* The conductance specification.                                          *)
(***************************************************************************)
Lengths == {-1, 0, 2}
Areas == {0, 1}
Conductivities == {1, 2}

\* The Network's store of geometric property arrays.
Geometry(pdia, parea, tarea, tlen) ==
    [key \in {"pore.diameter", "pore.area", "throat.area", "throat.length"} |->
        CASE key = "pore.diameter" -> pdia
          [] key = "pore.area" -> parea
          [] key = "throat.area" -> tarea
          [] OTHER -> tlen]

InitCond ==
    /\ built = TRUE
    /\ phases = <<>>
    /\ models = [o \in Objs |-> <<>>]
    /\ props = [o \in Objs |-> PhaseStore]
    /\ physics = <<CondPhys>>
    /\ physProps = [ph \in {CondPhys} |-> <<>>]
    /\ physPores = [ph \in {CondPhys} |-> ChainPores]
    /\ physThroats \in [{CondPhys} -> SUBSET ChainThroats]
    /\ net \in {Geometry(pdia, parea, tarea, tlen) :
                    pdia \in [ChainPores -> Lengths], parea \in [ChainPores -> Areas],
                    tarea \in [ChainThroats -> Areas],
                    tlen \in [ChainThroats -> Lengths]}
    /\ sigma \in [ChainPores -> Conductivities]
    /\ molar = <<>>
    /\ D_in = <<>>
    /\ op = None
    /\ raised = "none"
    /\ logged = "none"
    /\ ret = None
    /\ trace = <<>>

NextCond == series_resistors(CondPhys)

SpecCond == InitCond /\ [][NextCond]_vars

(***************************************************************************)
(* fuller_diffusivity and wilke_fuller_diffusivity.  The temperature and   *)
(* pressure of the mixture are the same in every evaluation, and so is the *)
(* factor 0.00143*T**1.75/(P*1e-5)*1e-4: a diffusivity D is held as D*D in *)
(* units of the square of that factor, which is an exact fraction when the *)
(* molar diffusion volumes are cubes.                                      *)
(***************************************************************************)
Species == Components \cup {"H2O"}

CubeRoot(v) == CHOOSE r \in 1..v : r * r * r = v

\* MAB = 1e3*2*(1.0/MA + 1.0/MB)**(-1)
MAB(MA, MB) == RMul(Num(1000 * 2), RInv(RAdd(RInv(Num(MA)), RInv(Num(MB)))))

\* fuller_diffusivity(target) for target.components = {A, B}, in this
\* order: vA and vB are both read from species_A.
fuller_diffusivity(A, B) ==
    LET MA == molar[A].molecular_weight
        MB == molar[B].molecular_weight
        vA == molar[A].molar_diffusion_volume
        vB == molar[A].molar_diffusion_volume
        s == CubeRoot(vA) + CubeRoot(vB)
    IN  RInv(RMul(MAB(MA, MB), Num(s * s * s * s)))

RECURSIVE PairLoop(_, _, _, _)
\* The double loop of wilke_fuller_diffusivity over the pairs i < j of
\* comps, from (i, j): D is stored on both members of each pair.
PairLoop(comps, i, j, d) ==
    IF i > Len(comps) THEN d
    ELSE IF j > Len(comps) THEN PairLoop(comps, i + 1, 1, d)
    ELSE IF j > i
         THEN LET A == comps[i]
                  B == comps[j]
                  D == fuller_diffusivity(A, B)
              IN  PairLoop(comps, i, j + 1,
                           [d EXCEPT ![A] = Put(@, B, D), ![B] = Put(@, A, D)])
         ELSE PairLoop(comps, i, j + 1, d)

\* wilke_fuller_diffusivity(target): the pair diffusivities it stores on
\* the components as 'pore.D_in_<partner>'.
wilke_fuller_diffusivity ==
    /\ D_in' = PairLoop(phases, 1, 1, D_in)
    /\ op' = [name |-> "wilke_fuller_diffusivity"]
    /\ raised' = "none"
    /\ logged' = "none"
    /\ ret' = None
    /\ UNCHANGED <<built, phases, models, props, trace, physVars, condVars, molar>>

\* target.components of the mixture is set to the species in the order given.
SetComponents(comps) ==
    /\ phases' = comps
    /\ op' = [name |-> "set_components"]
    /\ raised' = "none"
    /\ logged' = "none"
    /\ ret' = None
    /\ UNCHANGED <<built, models, props, trace, physVars, condVars, diffVars>>

(***************************************************************************)
(* The diffusivity specification.                                          *)
(***************************************************************************)
Weights == {1, 2, 3}
Volumes == {1, 8}
Orders == {c \in SeqsUpTo(Species, 3) :
              Len(c) >= 2 /\ \A i, j \in DOMAIN c : i # j => c[i] # c[j]}

InitDiff ==
    /\ built = TRUE
    /\ phases \in Orders
    /\ models = [o \in Objs |-> <<>>]
    /\ props = [o \in Objs |-> PhaseStore]
    /\ physics = <<>>
    /\ physProps = <<>>
    /\ physPores = <<>>
    /\ physThroats = <<>>
    /\ net = NoNet
    /\ sigma = <<>>
    /\ molar \in [Species -> [molecular_weight : Weights,
                              molar_diffusion_volume : Volumes]]
    /\ D_in = [c \in Species |-> <<>>]
    /\ op = None
    /\ raised = "none"
    /\ logged = "none"
    /\ ret = None
    /\ trace = <<>>

NextDiff ==
    \/ wilke_fuller_diffusivity
    \/ \E comps \in Orders : SetComponents(comps)

SpecDiff == InitDiff /\ [][NextDiff]_vars

(***************************************************************************)
(* Properties.                                                             *)
(***************************************************************************)

\* C1: setting P[k] while an attached physics object defines k fails with
\* an OwnershipConflict error, and P's own store is the same after the
\* call as before it.
C1_ConflictingSetFails ==
    [][(op'.name = "setitem" /\ DefinedByPhysics(op'.key))
          => (raised' = "OwnershipConflict" /\ props' = props)]_vars

\* The part of C1 about the store alone: the rejected write changes nothing
\* in it and the rejection is logged.
SetitemConflictKeepsStore ==
    [][(op'.name = "setitem" /\ DefinedByPhysics(op'.key))
          => (props' = props /\ logged' # "none")]_vars

\* The component's registry after an attachment: the two mixture models at
\* ordinals 0 and 1, then what it held before, in the same order.
AttachedKeepingModels(c) ==
    /\ Len(models'[c]) >= 2
    /\ models'[c][1] = Entry(T_KEY, "mixture_props.temperature", Mix)
    /\ models'[c][2] = Entry(P_KEY, "mixture_props.pressure", Mix)
    /\ SelectSeqKey(models'[c], {T_KEY, P_KEY})
          = SelectSeqKey(models[c], {T_KEY, P_KEY})

\* C2: after a component is attached, by the constructor or by
\* set_component(mode='add'), its registry has 'pore.temperature' at
\* ordinal 0, 'pore.pressure' at ordinal 1, and every entry it had before
\* is still registered after those two, in its previous relative order.
C2_AttachKeepsModels ==
    [][/\ op'.name = "init"
            => \A c \in Range(op'.components) : AttachedKeepingModels(c)
       /\ (op'.name = "set_component" /\ op'.mode = "add"
             /\ op'.phase \notin Range(phases))
            => AttachedKeepingModels(op'.phase)]_vars

\* C3: after any regeneration of the composite phase, every attached
\* component's temperature and pressure arrays equal the mixture's.
C3_ComponentsFollowMixture ==
    op.name = "regenerate"
        => \A c \in Range(phases) :
              /\ props[c][T_KEY] = props[Mix][T_KEY]
              /\ props[c][P_KEY] = props[Mix][P_KEY]

NoDuplicateComponents ==
    \A i, j \in DOMAIN phases : i # j => phases[i] # phases[j]

\* C5: attaching a component that is already attached is rejected with a
\* DuplicateMembership error and changes neither the component list nor the
\* component's models; no component ever appears twice in the list.
C5_DuplicateAttachRejected ==
    /\ [][/\ (op'.name = "set_component" /\ op'.mode = "add"
                /\ op'.phase \in Range(phases))
               => (raised' = "DuplicateMembership" /\ phases' = phases
                     /\ models' = models)
          /\ (op'.name = "init"
                /\ \E i, j \in DOMAIN op'.components :
                      i # j /\ op'.components[i] = op'.components[j])
               => raised' = "DuplicateMembership"]_vars
    /\ []NoDuplicateComponents

\* The value of key at element e composed from the attached physics
\* objects: that of the last object in the list that holds it there.
Composed(key, e) ==
    LET owners == {i \in DOMAIN physics :
                      /\ key \in DOMAIN physProps[physics[i]]
                      /\ e \in DOMAIN physProps[physics[i]][key]}
    IN  IF owners = {} THEN DefaultFill
        ELSE physProps[physics[CHOOSE i \in owners : \A j \in owners : j <= i]][key][e]

\* C6: reading a key that is not in the phase's own store returns the
\* array composed from the physics objects as they are now, and leaves the
\* phase's store as it was.
C6_ReadDoesNotCache ==
    [][(op'.name = "getitem" /\ op'.key \notin DOMAIN props[Mix])
          => /\ props' = props
             /\ raised' = "none"
                   <=> \E i \in DOMAIN physics : op'.key \in DOMAIN physProps[physics[i]]
             /\ raised' = "none"
                   => \A e \in ElementsOf(op'.key) : ret'[e] = Composed(op'.key, e)]_vars

C6_Witness ==
    /\ op.name = "getitem"
    /\ op.key = DIFFUSIVITY
    /\ DIFFUSIVITY \notin DOMAIN props[Mix]
    /\ raised = "none"
    /\ Len(physics) = 2
    /\ \A i \in DOMAIN physics : DIFFUSIVITY \in DOMAIN physProps[physics[i]]
    /\ ret[0] = DefaultFill
    /\ ret[2] # ret[4]

Covering(e, cover) == Cardinality({ph \in Range(physics) : e \in cover[ph]})

\* C7: a pore (throat) is listed as overlapping exactly when more than one
\* attached physics object covers it, as undefined exactly when none does.
C7_HealthPartition ==
    op.name = "check_physics_health"
        => /\ \A e \in Pores :
                 /\ e \in Range(ret.overlapping_pores) <=> Covering(e, physPores) > 1
                 /\ e \in Range(ret.undefined_pores) <=> Covering(e, physPores) = 0
           /\ \A e \in Throats :
                 /\ e \in Range(ret.overlapping_throats) <=> Covering(e, physThroats) > 1
                 /\ e \in Range(ret.undefined_throats) <=> Covering(e, physThroats) = 0

C7_Witness ==
    /\ op.name = "check_physics_health"
    /\ Len(physics) = 2
    /\ physPores["phys_A"] = {0, 1, 2}
    /\ physPores["phys_B"] = {2, 3, 4}
    /\ ret.overlapping_pores = <<2>>
    /\ ret.undefined_pores = <<>>

\* The resistance a node half adds to the series: none when its
\* conductance was computed as non-positive or non-finite.
HalfResistance(gp) ==
    IF IsPositive(gp) /\ IsFinite(gp) THEN RInv(gp) ELSE Num(0)

\* C8: for every throat of the calling physics object the returned
\* conductance satisfies 1/value = 1/g_edge + 1/g1 + 1/g2, a node half whose
\* conductance is non-positive or non-finite adding no resistance.
C8_SeriesLaw ==
    op.name = "series_resistors"
        => LET owned == ToList(physThroats[op.phys])
           IN  /\ Len(ret) = Len(owned)
               /\ \A i \in DOMAIN ret :
                     RInv(ret[i]) =
                        RAdd(RAdd(RInv(ThroatConductance(net, owned[i])),
                                  HalfResistance(HalfConductance(net, owned[i], 1))),
                             HalfResistance(HalfConductance(net, owned[i], 2)))

C8_Witness ==
    /\ op.name = "series_resistors"
    /\ \E i \in DOMAIN ret :
          LET t == ToList(physThroats[op.phys])[i]
          IN  /\ ~IsPositive(HalfConductance(net, t, 1))
              /\ IsPositive(HalfConductance(net, t, 2))
              /\ IsPositive(ThroatConductance(net, t))
              /\ IsPositive(ret[i])
              /\ IsFinite(ret[i])

\* C4: series_resistors leaves every geometric property array of the
\* Network as it was.
C4_NetworkNotMutated ==
    [][op'.name = "series_resistors" => net' = net]_vars

\* C9: the binary diffusivity computed for the pair (A, B) equals the one
\* computed for (B, A), so what is stored as D of A in B does not depend on
\* which of the two comes first in the component order.
C9_PairSymmetric ==
    op.name = "wilke_fuller_diffusivity"
        => \A A, B \in Range(phases) :
              A # B => /\ fuller_diffusivity(A, B) = fuller_diffusivity(B, A)
                       /\ D_in[A][B] = fuller_diffusivity(B, A)

IsComponentBegin(e) == e.ev = "begin" /\ e.obj # Mix
IsComponentEnd(e) == e.ev = "end" /\ e.obj # Mix
ObjsOf(events) == [i \in DOMAIN events |-> events[i].obj]

\* C10: a regeneration of the composite regenerates every component, each
\* to completion and with the caller's arguments, before any of the
\* composite's own entries runs.
C10_ComponentsFirst ==
    op.name = "regenerate"
        => /\ \A i, j \in DOMAIN trace :
                 (trace[i].obj = Mix /\ trace[j].obj # Mix) => j < i
           /\ ObjsOf(SelectSeq(trace, IsComponentBegin)) = phases
           /\ ObjsOf(SelectSeq(trace, IsComponentEnd)) = phases
           /\ \A i \in DOMAIN trace :
                 trace[i].targets = op.targets /\ trace[i].mode = op.mode
           /\ \A c \in Range(phases) : \A m \in DOMAIN models[c] :
                 (op.targets.unset \/ models[c][m].propname \in op.targets.keys)
                    => \E j \in DOMAIN trace :
                          /\ trace[j].obj = c
                          /\ trace[j].propname = models[c][m].propname
                          /\ trace[j].ev \in {"run", "skip"}
           /\ \E i \in DOMAIN trace : trace[i].obj = Mix /\ trace[i].ev = "end"

C10_Witness ==
    /\ op.name = "regenerate"
    /\ Len(phases) = 2
    /\ \E i \in DOMAIN trace :
          trace[i].obj = Mix /\ trace[i].ev = "run" /\ trace[i].propname = DENSITY
    /\ \E i \in DOMAIN trace :
          trace[i].obj # Mix /\ trace[i].ev = "run" /\ trace[i].propname = T_KEY

(***************************************************************************)
(* What does hold where C2, C3, C4 and C5 fail.                            *)
(***************************************************************************)

\* The constructor's attachment keeps the component's earlier entries.
ConstructorAttachKeepsModels ==
    [][op'.name = "init"
          => \A c \in Range(op'.components) : AttachedKeepingModels(c)]_vars

\* A regeneration of all entries in mode 'force' leaves every component at
\* the mixture's temperature and pressure.
ForcedFullRegenerationFollowsMixture ==
    (op.name = "regenerate" /\ op.targets.unset /\ op.mode = "force")
        => \A c \in Range(phases) :
              /\ props[c][T_KEY] = props[Mix][T_KEY]
              /\ props[c][P_KEY] = props[Mix][P_KEY]

\* set_component('add') of an attached component changes nothing and logs.
DuplicateAddLeavesMembership ==
    [][(op'.name = "set_component" /\ op'.mode = "add"
          /\ op'.phase \in Range(phases))
          => (phases' = phases /\ models' = models
                /\ logged' = "Phase already present")]_vars

\* series_resistors writes no Network array but 'throat.length'.
OnlyThroatLengthWritten ==
    [][op'.name = "series_resistors"
          => \A key \in DOMAIN net \ {"throat.length"} : net'[key] = net[key]]_vars

====
